---- MODULE Spec2Model ----
(***************************************************************************)
(* Queue engine of the distributed task queue: the Redis broker            *)
(* (src/src/queue/broker.py), the task record (src/src/queue/task.py), the *)
(* worker runtime (src/src/worker/worker.py), the registry and recovery    *)
(* helpers (src/src/worker/utils.py) and the pause flags                   *)
(* (src/src/api/routers/queues.py).                                        *)
(*                                                                         *)
(* Granularity: one action per store command issued by a worker coroutine  *)
(* (the local code that precedes an await runs atomically with it), one    *)
(* action per call for the producer and operator operations.               *)
(***************************************************************************)
EXTENDS Integers, Sequences, FiniteSets, TLC

\* ------------------------------------------------------------------ bounds
NumTasks == 2
MaxTime == 2
Priorities == {1, 10}
\* priorities Task.create and enqueue reject: just outside the valid range
InvalidPriorities == {0, 11}
MaxRetryBudget == 1
\* max_retries of the tasks produced: none, or the largest budget
RetryBudgets == {0, MaxRetryBudget}
\* timeout_seconds of recover_orphaned_tasks, in heartbeat periods: two or
\* more, so that a worker that writes every period is never stale
Timeouts == 2..MaxTime

\* ------------------------------------------------------- program constants
MinPriority == 1
MaxPriority == 10

DefaultQueue == "default"
Queues == {"default", "q2"}
Workers == {"w1", "w2"}
LoopIdx == {1, 2}
TaskNames == {"echo", "ghost"}
Handlers == {"echo"}
TaskIds == 1..NumTasks

NULL == -1
NoTask == [id |-> 0]

VARIABLES
    now,         \* wall clock, in units of one heartbeat period
    nextId,      \* next fresh task id (uuid4 in Task.create)
    rec,         \* task:{id}            -> Task record
    pending,     \* queue:{Q}:pending    -> sorted set, member |-> score
    processing,  \* queue:{Q}:processing -> set
    completed,   \* queue:{Q}:completed  -> set
    failed,      \* queue:{Q}:failed     -> set
    dlq,         \* queue:{Q}:dlq:failed -> set
    paused,      \* queues:paused        -> set
    wrec,        \* worker:{wid}         -> WorkerState record
    active,      \* workers:active       -> set
    cfg,         \* Worker.__init__ arguments: queues, concurrency
    wk,          \* per worker: start() position, _running, _state, heartbeat task
    loops,       \* per worker and index: _process_loop position and locals
    hist,        \* observation of the run (not program state)
    client,      \* a caller of the Task and broker API: the Task object it
                 \* holds and whether its last call raised
    api          \* an HTTP request to the tasks router: its position, its
                 \* arguments, the task it read and its response

vars == <<now, nextId, rec, pending, processing, completed, failed, dlq,
          paused, wrec, active, cfg, wk, loops, hist, client, api>>

store == <<rec, pending, processing, completed, failed, dlq>>

\* ------------------------------------------------------------ task record
\* Task.create: status pending, no timestamps, no result, no error, retries 0
Create(id, name, priority, max_retries) ==
    [id |-> id, name |-> name, status |-> "pending", priority |-> priority,
     started_at |-> NULL, completed_at |-> NULL, result |-> "none",
     error |-> "none", retries |-> 0, max_retries |-> max_retries]

\* Task.mark_processing raises unless the status is pending
CanMarkProcessing(t) == t.status = "pending"

mark_processingMutant(t, time) == [t EXCEPT !.status = "processing"]
mark_processing(t, time) ==
    [t EXCEPT !.status = "processing", !.started_at = time]

mark_completed(t, result, time) ==
    [t EXCEPT !.status = "completed", !.completed_at = time, !.result = result]

mark_failedMutant(t, error, time) ==
    [t EXCEPT !.status = "failed", !.completed_at = time, !.error = error,
              !.retries = 0]
mark_failed(t, error, time) ==
    [t EXCEPT !.status = "failed", !.completed_at = time, !.error = error]

can_retryMutant(t) == t.retries <= t.max_retries
can_retry(t) == t.retries < t.max_retries

prepare_retryMutant(t) == [t EXCEPT !.status = "pending"]
prepare_retry(t) ==
    [t EXCEPT !.retries = @ + 1, !.status = "pending", !.started_at = NULL,
              !.completed_at = NULL, !.error = "none"]

\* the JSON null that json.dumps writes for None
JsonNull == <<"null">>

\* datetime.isoformat and datetime.fromisoformat as to_dict and from_dict
\* call them: None is written as null and null is read as None
isoformat(d) == IF d # NULL THEN <<"iso", d>> ELSE JsonNull
fromisoformatMutant(x) == NULL
fromisoformat(x) == IF x # JsonNull THEN x[2] ELSE NULL

\* Task.to_dict / to_json: the id as a string, the timestamps in ISO format
to_json(t) ==
    [t EXCEPT !.id = <<"uuid", t.id>>,
              !.started_at = isoformat(t.started_at),
              !.completed_at = isoformat(t.completed_at)]

\* Task.from_json / from_dict
from_json(j) ==
    [j EXCEPT !.id = j.id[2],
              !.started_at = fromisoformat(j.started_at),
              !.completed_at = fromisoformat(j.completed_at)]

\* RedisBroker.get_task on the records r: GET task:{id}, Task.from_json;
\* None when the key is missing
get_task(r, id) == IF id \in DOMAIN r THEN from_json(to_json(r[id])) ELSE NoTask

\* outcome of a call: the Task object after it and whether it raised
Returned(t) == [task |-> t, raised |-> FALSE]
Raised(t) == [task |-> t, raised |-> TRUE]

\* Task.__post_init__ and the check of RedisBroker.enqueue: 1 <= p <= 10
ValidPriorityMutant(p) == TRUE
ValidPriority(p) == p >= MinPriority /\ p <= MaxPriority

\* Task.mark_processing as called: the guard, then the assignments
Task_mark_processing(t, time) ==
    IF CanMarkProcessing(t) THEN Returned(mark_processing(t, time)) ELSE Raised(t)

\* Task.mark_completed as called: raises unless the status is processing
Task_mark_completed(t, result, time) ==
    IF t.status = "processing" THEN Returned(mark_completed(t, result, time))
    ELSE Raised(t)

\* Task.mark_failed as called: raises unless the status is processing
Task_mark_failedMutant(t, error, time) ==
    IF t.status = "processing" THEN Returned(mark_failed(t, error, time))
    ELSE Raised([t EXCEPT !.error = error])
Task_mark_failed(t, error, time) ==
    IF t.status = "processing" THEN Returned(mark_failed(t, error, time))
    ELSE Raised(t)

\* Task.prepare_retry as called: raises unless can_retry()
Task_prepare_retry(t) ==
    IF can_retry(t) THEN Returned(prepare_retry(t)) ELSE Raised(t)

\* ------------------------------------------------------- store primitives
\* score written by ZADD in enqueue, update_task and recover_orphaned_tasks
ScoreMutant(p) == p
Score(p) == -p

\* ZADD key {member: score}
ZAddMutant(z, id, score) == z
ZAdd(z, id, score) == [m \in (DOMAIN z) \cup {id} |-> IF m = id THEN score ELSE z[m]]

\* members BZPOPMIN may return: those of the lowest score
ZMin(z) == {m \in DOMAIN z : \A o \in DOMAIN z : z[m] <= z[o]}

\* the sorted set after BZPOPMIN returned member id
ZPopMutant(z, id) == z
ZPop(z, id) == [m \in (DOMAIN z) \ {id} |-> z[m]]

\* SMOVE src dst member: nothing happens when member is not in src
SMoveSrc(src, id) == src \ {id}
SMoveDst(src, dst, id) == IF id \in src THEN dst \cup {id} ELSE dst

\* Redis key composition: every queue set is addressed by queue name
QueueOf(w, qi) == cfg[w].queues[qi]

\* ----------------------------------------------------------- worker state
\* WorkerState defaults (worker.py:71-79)
WorkerState0 ==
    [status |-> "starting", current_task |-> 0, current_task_name |-> "none",
     last_heartbeat |-> 0, tasks_completed |-> 0, tasks_failed |-> 0]

Loop0 == [pc |-> "off", qi |-> 0, tid |-> 0, task |-> NoTask]

Hist0 ==
    [watch  |-> {},
     began  |-> [q \in Queues |-> FALSE],
     early  |-> [q \in Queues |-> {}],
     order  |-> [q \in Queues |-> <<>>],
     prio   |-> [id \in TaskIds |-> 0],
     origin |-> [id \in TaskIds |-> "none"],
     fails  |-> [id \in TaskIds |-> 0],
     inflight |-> [w \in Workers |-> {}],
     credit |-> [q \in Queues |-> [id \in TaskIds |-> 0]]]

\* no API request is in flight and none has been answered
Api0 == [pc |-> "idle", id |-> 0, q |-> "none", task |-> NoTask, out |-> "none"]

\* a caller that holds no Task object and has made no call
Client0 == [task |-> NoTask, raised |-> FALSE]

InitStore ==
    /\ now = 0
    /\ nextId = 1
    /\ rec = [id \in {} |-> NoTask]
    /\ pending = [q \in Queues |-> [id \in {} |-> 0]]
    /\ processing = [q \in Queues |-> {}]
    /\ completed = [q \in Queues |-> {}]
    /\ failed = [q \in Queues |-> {}]
    /\ dlq = [q \in Queues |-> {}]
    /\ paused = {}

\* Worker._update_state: SET worker:{wid}, SADD workers:active
WriteState(w, st) ==
    /\ wrec' = [x \in (DOMAIN wrec) \cup {w} |-> IF x = w THEN st ELSE wrec[x]]
    /\ active' = active \cup {w}

\* observation of a run, kept in hist: credit (inserts minus pops of an id
\* in a pending set), prio and origin (priority and queue at enqueue),
\* inflight (tasks in flight when shutdown began) and, when named in
\* hist.watch, "order" (began, early, order: dequeues of a queue have begun,
\* ids enqueued before that, ids in the order of their first pop) and
\* "fails" (failed handler attempts per id)

\* observation: a ZADD that adds a member the sorted set did not hold
NoteInsert(h, q, id) ==
    IF id \in DOMAIN pending[q] THEN h
    ELSE [h EXCEPT !.credit[q][id] = @ + 1]

\* observation: BZPOPMIN handed member id of queue q to a caller
NotePop(h, q, id) ==
    [h EXCEPT !.began[q] = ("order" \in h.watch),
              !.credit[q][id] = @ - 1,
              !.order[q] = IF "order" \notin h.watch
                              \/ \E k \in 1..Len(@) : @[k] = id
                           THEN @ ELSE Append(@, id)]

\* --------------------------------------------------------------- producer
\* Task.create followed by RedisBroker.enqueue(task, queue, priority)
Enqueue(q, name, p0, ov, m) ==
    LET id == nextId
        p  == IF ov # NULL THEN ov ELSE p0
        t  == [Create(id, name, p0, m) EXCEPT !.priority = p]
    IN  /\ nextId <= NumTasks
        /\ p >= MinPriority /\ p <= MaxPriority
        /\ nextId' = nextId + 1
        /\ rec' = [x \in (DOMAIN rec) \cup {id} |-> IF x = id THEN t ELSE rec[x]]
        /\ pending' = [pending EXCEPT ![q] = ZAdd(@, id, Score(p))]
        /\ hist' = [NoteInsert(hist, q, id) EXCEPT
                      !.prio[id] = p,
                      !.origin[id] = q,
                      !.early[q] = IF hist.began[q] \/ "order" \notin hist.watch
                                   THEN @ ELSE @ \cup {id}]
        /\ UNCHANGED <<now, processing, completed, failed, dlq, paused, wrec,
                       active, cfg, wk, loops,
                       client, api>>

\* ------------------------------------------------------------ queue control
\* pause_queue: rejected when already paused, else SADD queues:paused
Pause(q) ==
    /\ q \notin paused
    /\ paused' = paused \cup {q}
    /\ UNCHANGED <<now, nextId, store, wrec, active, cfg, wk, loops, hist, client, api>>

\* resume_queue: rejected when not paused, else SREM queues:paused
Resume(q) ==
    /\ q \in paused
    /\ paused' = paused \ {q}
    /\ UNCHANGED <<now, nextId, store, wrec, active, cfg, wk, loops, hist, client, api>>

\* ------------------------------------------------------------------ worker
Alive(w) == wk[w].pc \in {"wait", "gather"} /\ ~wk[w].crashed

\* Worker.start up to the wait on the shutdown event: _running = True,
\* status idle, _update_state, heartbeat task and process loops created
StartMutant(w) ==
    LET st == [wk[w].state EXCEPT !.status = "idle", !.last_heartbeat = now]
    IN  /\ wk[w].pc = "init"
        /\ wk' = [wk EXCEPT ![w] = [@ EXCEPT !.pc = "wait", !.running = TRUE,
                                               !.hb = "on", !.state = st]]
        /\ WriteState(w, st)
        /\ loops' = [loops EXCEPT ![w] =
                       [i \in LoopIdx |-> [Loop0 EXCEPT !.pc = "top"]]]
        /\ UNCHANGED <<now, nextId, store, paused, cfg, hist, client, api>>
Start(w) ==
    LET st == [wk[w].state EXCEPT !.status = "idle", !.last_heartbeat = now]
    IN  /\ wk[w].pc = "init"
        /\ wk' = [wk EXCEPT ![w] = [@ EXCEPT !.pc = "wait", !.running = TRUE,
                                               !.hb = "on", !.state = st]]
        /\ WriteState(w, st)
        /\ loops' = [loops EXCEPT ![w] =
                       [i \in LoopIdx |-> IF i <= cfg[w].concurrency
                                          THEN [Loop0 EXCEPT !.pc = "top"]
                                          ELSE Loop0]]
        /\ UNCHANGED <<now, nextId, store, paused, cfg, hist, client, api>>

\* observation: the tasks dequeue has returned to a loop of w and whose
\* _process_task has not returned
InFlight(w) ==
    {loops[w][i].task.id : i \in {j \in LoopIdx :
        loops[w][j].pc \in {"busy", "run", "upd_move", "upd_zadd", "dlq_set",
                            "dlq_sadd", "reset"}}}

\* Worker.graceful_shutdown: _running = False, status stopping,
\* _update_state, then the shutdown event is set
GracefulShutdown(w) ==
    LET st == [wk[w].state EXCEPT !.status = "stopping"]
    IN  /\ wk[w].pc = "wait"
        /\ ~wk[w].crashed
        /\ wk' = [wk EXCEPT ![w] = [@ EXCEPT !.pc = "gather", !.running = FALSE,
                                               !.state = st]]
        /\ WriteState(w, st)
        /\ hist' = [hist EXCEPT !.inflight[w] = InFlight(w)]
        /\ UNCHANGED <<now, nextId, store, paused, cfg, loops, client, api>>

\* the loops asyncio.gather waits for in Worker.start
LoopsExitedMutant(w) == TRUE
LoopsExited(w) == \A i \in LoopIdx : loops[w][i].pc \in {"off", "done"}

\* Worker.start after the shutdown event: gather the process loops, cancel
\* the heartbeat task, write the final state
StartFinish(w) ==
    LET st == [wk[w].state EXCEPT !.status = "stopped", !.current_task = 0,
                                  !.current_task_name = "none"]
    IN  /\ wk[w].pc = "gather"
        /\ ~wk[w].crashed
        /\ LoopsExited(w)
        /\ wk' = [wk EXCEPT ![w] = [@ EXCEPT !.pc = "returned", !.hb = "done",
                                               !.state = st]]
        /\ WriteState(w, st)
        /\ UNCHANGED <<now, nextId, store, paused, cfg, loops, hist, client, api>>

\* Worker._heartbeat_loop, one iteration in which the store raises in
\* _update_state: last_heartbeat is assigned, nothing is written, the error
\* is logged and the loop goes on after a second
HeartbeatError(w) ==
    /\ Alive(w)
    /\ wk[w].hb = "on"
    /\ wk[w].running
    /\ wk' = [wk EXCEPT ![w].state.last_heartbeat = now]
    /\ UNCHANGED <<now, nextId, store, paused, wrec, active, cfg, loops, hist,
                   client, api>>

\* Worker._heartbeat_loop, one iteration: heartbeat() then sleep
HeartbeatMutant(w) ==
    /\ Alive(w)
    /\ wk[w].hb = "on"
    /\ wk[w].running
    /\ UNCHANGED vars
Heartbeat(w) ==
    LET st == [wk[w].state EXCEPT !.last_heartbeat = now]
    IN  /\ Alive(w)
        /\ wk[w].hb = "on"
        /\ wk[w].running
        /\ wk' = [wk EXCEPT ![w].state = st]
        /\ WriteState(w, st)
        /\ UNCHANGED <<now, nextId, store, paused, cfg, loops, hist, client, api>>

\* Worker._heartbeat_loop leaves its while loop once _running is false
HeartbeatExit(w) ==
    /\ Alive(w)
    /\ wk[w].hb = "on"
    /\ ~wk[w].running
    /\ wk' = [wk EXCEPT ![w].hb = "done"]
    /\ UNCHANGED <<now, nextId, store, paused, wrec, active, cfg, loops, hist, client, api>>

\* the worker process dies: none of its coroutines takes another step
Crash(w) ==
    /\ Alive(w)
    /\ wk' = [wk EXCEPT ![w].crashed = TRUE]
    /\ UNCHANGED <<now, nextId, store, paused, wrec, active, cfg, loops, hist, client, api>>

\* time passes, whatever the workers have done
Pass ==
    /\ now < MaxTime
    /\ now' = now + 1
    /\ UNCHANGED <<nextId, store, paused, wrec, active, cfg, wk, loops, hist,
                   client, api>>

\* one heartbeat period passes; a running worker's heartbeat loop has
\* written within the period (HEARTBEAT_INTERVAL)
Tick ==
    /\ now < MaxTime
    /\ \A w \in Workers :
         (Alive(w) /\ wk[w].hb = "on" /\ wk[w].running)
            => wk[w].state.last_heartbeat = now
    /\ now' = now + 1
    /\ UNCHANGED <<nextId, store, paused, wrec, active, cfg, wk, loops, hist, client, api>>

\* ------------------------------------------------------------ process loop
At(w, i, pc) == ~wk[w].crashed /\ loops[w][i].pc = pc

SetLoop(w, i, l) == loops' = [loops EXCEPT ![w][i] = l]

\* Worker._process_loop: the test of `while self._running`, then the first
\* dequeue of _poll_queues is issued
LoopTop(w, i) ==
    /\ At(w, i, "top")
    /\ SetLoop(w, i, IF wk[w].running
                     THEN [Loop0 EXCEPT !.pc = "poll", !.qi = 1]
                     ELSE [Loop0 EXCEPT !.pc = "done"])
    /\ UNCHANGED <<now, nextId, store, paused, wrec, active, cfg, wk, hist, client, api>>

\* Worker._poll_queues after dequeue gave no task for the queue at l.qi
\* (None or an exception): the next queue is tried, after the last queue
\* the loop sleeps and comes back to its top
AfterNone(w, l) ==
    IF l.qi < Len(cfg[w].queues)
    THEN [Loop0 EXCEPT !.pc = "poll", !.qi = l.qi + 1]
    ELSE [Loop0 EXCEPT !.pc = "top"]

\* RedisBroker.dequeue: BZPOPMIN returns a member of the pending set
DeqPop(w, i) ==
    LET l == loops[w][i]
        q == QueueOf(w, l.qi)
    IN  /\ At(w, i, "poll")
        /\ \E id \in ZMin(pending[q]) :
             /\ pending' = [pending EXCEPT ![q] = ZPop(@, id)]
             /\ hist' = NotePop(hist, q, id)
             /\ SetLoop(w, i, [l EXCEPT !.pc = "deq_get", !.tid = id])
        /\ UNCHANGED <<now, nextId, rec, processing, completed, failed, dlq,
                       paused, wrec, active, cfg, wk,
                       client, api>>

\* RedisBroker.dequeue: BZPOPMIN times out on an empty pending set
DeqTimeout(w, i) ==
    LET l == loops[w][i]
        q == QueueOf(w, l.qi)
    IN  /\ At(w, i, "poll")
        /\ DOMAIN pending[q] = {}
        /\ SetLoop(w, i, AfterNone(w, l))
        /\ UNCHANGED <<now, nextId, store, paused, wrec, active, cfg, wk, hist, client, api>>

\* RedisBroker.dequeue: GET task:{id}, Task.from_json, mark_processing
DeqGetMutant(w, i) ==
    LET l == loops[w][i]
        q == QueueOf(w, l.qi)
    IN  /\ At(w, i, "deq_get")
        /\ SetLoop(w, i,
             IF l.tid \notin DOMAIN rec THEN AfterNone(w, l)
             ELSE IF ~CanMarkProcessing(rec[l.tid]) THEN AfterNone(w, l)
             ELSE [l EXCEPT !.pc = "deq_set",
                            !.task = mark_processing(rec[l.tid], now)])
        /\ pending' = IF l.tid \notin DOMAIN rec
                      THEN [pending EXCEPT ![q] = ZAdd(@, l.tid, 0)]
                      ELSE pending
        /\ UNCHANGED <<now, nextId, rec, processing, completed, failed, dlq,
                       paused, wrec, active, cfg, wk, hist, client, api>>
DeqGet(w, i) ==
    LET l == loops[w][i]
    IN  /\ At(w, i, "deq_get")
        /\ SetLoop(w, i,
             IF l.tid \notin DOMAIN rec THEN AfterNone(w, l)
             ELSE IF ~CanMarkProcessing(rec[l.tid]) THEN AfterNone(w, l)
             ELSE [l EXCEPT !.pc = "deq_set",
                            !.task = mark_processing(rec[l.tid], now)])
        /\ UNCHANGED <<now, nextId, store, paused, wrec, active, cfg, wk, hist, client, api>>

\* RedisBroker.dequeue: SET task:{id} with the processing record
DeqSet(w, i) ==
    LET l == loops[w][i]
    IN  /\ At(w, i, "deq_set")
        /\ rec' = [x \in (DOMAIN rec) \cup {l.tid} |->
                     IF x = l.tid THEN l.task ELSE rec[x]]
        /\ SetLoop(w, i, [l EXCEPT !.pc = "deq_sadd"])
        /\ UNCHANGED <<now, nextId, pending, processing, completed, failed,
                       dlq, paused, wrec, active, cfg, wk, hist,
                       client, api>>

\* RedisBroker.dequeue: SADD queue:{Q}:processing, the task is returned
DeqSadd(w, i) ==
    LET l == loops[w][i]
        q == QueueOf(w, l.qi)
    IN  /\ At(w, i, "deq_sadd")
        /\ processing' = [processing EXCEPT ![q] = @ \cup {l.tid}]
        /\ SetLoop(w, i, [l EXCEPT !.pc = "busy"])
        /\ UNCHANGED <<now, nextId, rec, pending, completed, failed, dlq,
                       paused, wrec, active, cfg, wk, hist,
                       client, api>>

\* Worker._process_task: status busy with the current task, _update_state
PublishBusy(w, i) ==
    LET l  == loops[w][i]
        st == [wk[w].state EXCEPT !.status = "busy",
                                  !.current_task = l.task.id,
                                  !.current_task_name = l.task.name]
    IN  /\ At(w, i, "busy")
        /\ wk' = [wk EXCEPT ![w].state = st]
        /\ WriteState(w, st)
        /\ SetLoop(w, i, [l EXCEPT !.pc = "run"])
        /\ UNCHANGED <<now, nextId, store, paused, cfg, hist, client, api>>

\* what the handler call of _process_task yields: a result, an exception,
\* or the asyncio.wait_for timeout; a name without handler never runs
Outcomes == {"ok", "exc", "timeout"}

ErrorOf(o) ==
    CASE o = "exc" -> "boom"
      [] o = "timeout" -> "timed out"
      [] OTHER -> "no handler"

\* queue name update_task reconciles in: Worker passes none, so
\* RedisBroker.update_task falls back to settings.default_queue
UpdateQueue(w, l) == DefaultQueue

\* queue name of the dead-letter set: the first queue of the polling list
DlqQueue(w) == cfg[w].queues[1]

\* Worker.BASE_RETRY_DELAY and Worker.MAX_RETRY_DELAY, in seconds
BASE_RETRY_DELAY == 1
MAX_RETRY_DELAY == 300

\* sys.float_info.max_exp: an int converts to float only below 2^1024
FloatMaxExp == 1024

\* 2 ** n by doubling from 2 ** k = v; Python's int is exact, and the
\* doubling stops above MAX_RETRY_DELAY, where min() no longer tells the
\* values apart
RECURSIVE Doubled(_, _, _)
Doubled(k, v, n) ==
    IF k = n \/ v > MAX_RETRY_DELAY THEN v ELSE Doubled(k + 1, 2 * v, n)

\* Worker._calculate_retry_delay(retry_count):
\* min(BASE_RETRY_DELAY * (2 ** retry_count), MAX_RETRY_DELAY); the product
\* float * int converts the int and raises OverflowError when it does not
\* fit a float
calculate_retry_delay(n) ==
    IF n >= FloatMaxExp
    THEN [raised |-> TRUE, delay |-> NULL]
    ELSE LET d == BASE_RETRY_DELAY * Doubled(0, 1, n)
         IN  [raised |-> FALSE,
              delay |-> IF d < MAX_RETRY_DELAY THEN d ELSE MAX_RETRY_DELAY]

\* Worker._handle_task_failure up to the SET of update_task:
\* prepare_retry when the task can retry
AfterFailureMutant(t) == t
AfterFailure(t) == IF can_retry(t) THEN prepare_retry(t) ELSE t

\* Worker._process_task: the handler call ends; mark_completed or
\* mark_failed and the failure path run up to update_task's SET task:{id}.
\* An exception of _calculate_retry_delay leaves _handle_task_failure
\* before prepare_retry and update_task: only the final state reset of
\* _process_task follows
RunHandler(w, i, o) ==
    LET l   == loops[w][i]
        out == IF l.task.name \in Handlers THEN o ELSE "nohandler"
        f   == mark_failed(l.task, ErrorOf(out), now)
        exc == /\ out # "ok"
               /\ can_retry(f)
               /\ calculate_retry_delay(f.retries).raised
        t   == IF out = "ok" THEN mark_completed(l.task, "r", now)
               ELSE IF exc THEN f ELSE AfterFailure(f)
    IN  /\ At(w, i, "run")
        /\ rec' = IF exc THEN rec
                  ELSE [x \in (DOMAIN rec) \cup {t.id} |->
                          IF x = t.id THEN t ELSE rec[x]]
        /\ wk' = IF out = "ok" THEN wk
                 ELSE [wk EXCEPT ![w].state.tasks_failed = @ + 1]
        /\ SetLoop(w, i, [l EXCEPT !.pc = IF exc THEN "reset" ELSE "upd_move",
                                   !.task = t])
        /\ hist' = IF out = "ok" \/ "fails" \notin hist.watch THEN hist
                   ELSE [hist EXCEPT !.fails[t.id] = @ + 1]
        /\ UNCHANGED <<now, nextId, pending, processing, completed, failed,
                       dlq, paused, wrec, active, cfg,
                       client, api>>

\* RedisBroker.update_task after the SET: SMOVE processing -> completed,
\* SMOVE processing -> failed, or SREM processing (retry)
UpdMove(w, i) ==
    LET l  == loops[w][i]
        q  == UpdateQueue(w, l)
        id == l.task.id
    IN  /\ At(w, i, "upd_move")
        /\ processing' = [processing EXCEPT ![q] = SMoveSrc(@, id)]
        /\ completed' = IF l.task.status = "completed"
                        THEN [completed EXCEPT ![q] = SMoveDst(processing[q], @, id)]
                        ELSE completed
        /\ failed' = IF l.task.status = "failed"
                     THEN [failed EXCEPT ![q] = SMoveDst(processing[q], @, id)]
                     ELSE failed
        /\ wk' = IF l.task.status = "completed"
                 THEN [wk EXCEPT ![w].state.tasks_completed = @ + 1]
                 ELSE wk
        /\ SetLoop(w, i, [l EXCEPT !.pc =
                            CASE l.task.status = "completed" -> "reset"
                              [] l.task.status = "failed" -> "dlq_set"
                              [] OTHER -> "upd_zadd"])
        /\ UNCHANGED <<now, nextId, rec, pending, dlq, paused, wrec, active,
                       cfg, hist,
                       client, api>>

\* RedisBroker.update_task, retry branch: ZADD pending with -priority
UpdZadd(w, i) ==
    LET l  == loops[w][i]
        q  == UpdateQueue(w, l)
        id == l.task.id
    IN  /\ At(w, i, "upd_zadd")
        /\ pending' = [pending EXCEPT ![q] = ZAdd(@, id, Score(l.task.priority))]
        /\ hist' = NoteInsert(hist, q, id)
        /\ SetLoop(w, i, [l EXCEPT !.pc = "reset"])
        /\ UNCHANGED <<now, nextId, rec, processing, completed, failed, dlq,
                       paused, wrec, active, cfg, wk,
                       client, api>>

\* Worker._move_to_dlq: SET task:{id}
DlqSet(w, i) ==
    LET l == loops[w][i]
    IN  /\ At(w, i, "dlq_set")
        /\ rec' = [x \in (DOMAIN rec) \cup {l.task.id} |->
                     IF x = l.task.id THEN l.task ELSE rec[x]]
        /\ SetLoop(w, i, [l EXCEPT !.pc = "dlq_sadd"])
        /\ UNCHANGED <<now, nextId, pending, processing, completed, failed,
                       dlq, paused, wrec, active, cfg, wk, hist,
                       client, api>>

\* Worker._move_to_dlq: SADD queue:{Q}:dlq:failed
DlqSadd(w, i) ==
    LET l == loops[w][i]
    IN  /\ At(w, i, "dlq_sadd")
        /\ dlq' = [dlq EXCEPT ![DlqQueue(w)] = @ \cup {l.task.id}]
        /\ SetLoop(w, i, [l EXCEPT !.pc = "reset"])
        /\ UNCHANGED <<now, nextId, rec, pending, processing, completed,
                       failed, paused, wrec, active, cfg, wk, hist,
                       client, api>>

\* Worker._process_task, on exit: status idle, no current task, _update_state
Reset(w, i) ==
    LET st == [wk[w].state EXCEPT !.status = "idle", !.current_task = 0,
                                  !.current_task_name = "none"]
    IN  /\ At(w, i, "reset")
        /\ wk' = [wk EXCEPT ![w].state = st]
        /\ WriteState(w, st)
        /\ SetLoop(w, i, [Loop0 EXCEPT !.pc = "top"])
        /\ UNCHANGED <<now, nextId, store, paused, cfg, hist, client, api>>

\* Worker.get_all_workers: the states of the members of workers:active
\* that have a record
get_all_workers == active \cap DOMAIN wrec

\* get_active_workers: the workers whose heartbeat is younger than the
\* timeout
get_active_workersMutant(timeout) ==
    {w \in get_all_workers : now - wrec[w].last_heartbeat <= timeout}
get_active_workers(timeout) ==
    {w \in get_all_workers : now - wrec[w].last_heartbeat < timeout}

\* ---------------------------------------------------------------- recovery
\* get_stale_workers(broker, timeout_seconds): Worker.get_all_workers
\* filtered by the age of last_heartbeat
StaleWorkers(timeout) ==
    {w \in active \cap DOMAIN wrec : now - wrec[w].last_heartbeat >= timeout}

\* the tasks recover_orphaned_tasks re-enqueues: named by a stale worker's
\* current_task, stored, and with status processing
Orphans(timeout) ==
    {id \in DOMAIN rec : /\ \E w \in StaleWorkers(timeout) : wrec[w].current_task = id
                         /\ rec[id].status = "processing"}

RECURSIVE ZAddAll(_, _)
ZAddAll(z, ids) ==
    IF ids = {} THEN z
    ELSE LET id == CHOOSE x \in ids : TRUE
         IN  ZAddAll(ZAdd(z, id, Score(rec[id].priority)), ids \ {id})

RECURSIVE NoteInsertAll(_, _, _)
NoteInsertAll(h, q, ids) ==
    IF ids = {} THEN h
    ELSE LET id == CHOOSE x \in ids : TRUE
         IN  NoteInsertAll(NoteInsert(h, q, id), q, ids \ {id})

\* recover_orphaned_tasks(broker, queue_name, timeout_seconds)
Recover(q, timeout) ==
    /\ rec' = [x \in DOMAIN rec |->
                 IF x \in Orphans(timeout)
                 THEN [rec[x] EXCEPT !.status = "pending", !.started_at = NULL]
                 ELSE rec[x]]
    /\ processing' = [processing EXCEPT ![q] = @ \ Orphans(timeout)]
    /\ pending' = [pending EXCEPT ![q] = ZAddAll(@, Orphans(timeout))]
    /\ hist' = NoteInsertAll(hist, q, Orphans(timeout))
    /\ UNCHANGED <<now, nextId, completed, failed, dlq, paused, wrec, active,
                   cfg, wk, loops,
                   client, api>>

\* cleanup_stale_workers(broker, timeout_seconds): DELETE worker:{wid} and
\* SREM workers:active for every stale worker
Cleanup(timeout) ==
    /\ wrec' = [w \in (DOMAIN wrec) \ StaleWorkers(timeout) |-> wrec[w]]
    /\ active' = active \ StaleWorkers(timeout)
    /\ UNCHANGED <<now, nextId, store, paused, cfg, wk, loops, hist, client, api>>

\* ---------------------------------------------------------- specifications
OneQueue == [queues |-> <<"default">>, concurrency |-> 1]
TwoQueues == [queues |-> <<"q2", "default">>, concurrency |-> 1]
TwoLoops == [queues |-> <<"default">>, concurrency |-> 2]

\* the state Start(w) leaves a worker in, for the workers in `started`
InitWith(c, started) ==
    LET st == [WorkerState0 EXCEPT !.status = "idle"]
    IN  /\ InitStore
        /\ client = Client0
        /\ api = Api0
        /\ hist \in {[Hist0 EXCEPT !.watch = o] : o \in SUBSET {"order", "fails"}}
        /\ cfg = c
        /\ wrec = [w \in started |-> st]
        /\ active = started
        /\ wk = [w \in Workers |->
                   IF w \in started
                   THEN [pc |-> "wait", running |-> TRUE, crashed |-> FALSE,
                         hb |-> "on", state |-> st]
                   ELSE [pc |-> "init", running |-> FALSE, crashed |-> FALSE,
                         hb |-> "off", state |-> WorkerState0]]
        /\ loops = [w \in Workers |-> [i \in LoopIdx |->
                      IF w \in started /\ i <= c[w].concurrency
                      THEN [Loop0 EXCEPT !.pc = "top"] ELSE Loop0]]

Dequeue ==
    \E w \in Workers, i \in LoopIdx :
        \/ LoopTop(w, i)
        \/ DeqPop(w, i)
        \/ DeqTimeout(w, i)
        \/ DeqGet(w, i)
        \/ DeqSet(w, i)
        \/ DeqSadd(w, i)

\* the steps of _process_task around the handler call that every task takes
Finish ==
    \E w \in Workers, i \in LoopIdx :
        \/ PublishBusy(w, i)
        \/ UpdMove(w, i)
        \/ Reset(w, i)

\* the steps only a failed attempt takes: re-enqueue, or _move_to_dlq
FailurePath ==
    \E w \in Workers, i \in LoopIdx :
        \/ UpdZadd(w, i)
        \/ DlqSet(w, i)
        \/ DlqSadd(w, i)

Reconcile == Finish \/ FailurePath

Handle(outcomes) ==
    \E w \in Workers, i \in LoopIdx, o \in outcomes : RunHandler(w, i, o)

\* Spec: two running workers, w1 polling the default queue and w2 polling
\* q2 then the default queue; tasks of any name, priority and retry budget
Init ==
    /\ InitWith([w \in Workers |-> IF w = "w1" THEN OneQueue ELSE TwoQueues],
                Workers)
    /\ hist = [Hist0 EXCEPT !.watch = {"fails"}]

Produce ==
    \E q \in Queues, name \in TaskNames, p \in Priorities, m \in RetryBudgets :
        Enqueue(q, name, p, NULL, m)

Next ==
    \/ Produce
    \/ Dequeue
    \/ Handle(Outcomes)
    \/ Reconcile

Spec == Init /\ [][Next]_vars

\* SpecBroker: a single client calling the broker one call at a time, as
\* the broker tests do
InitBroker ==
    /\ InitWith([w \in Workers |-> OneQueue], {})
    /\ hist = [Hist0 EXCEPT !.watch = {"order"}]

\* RedisBroker.dequeue as one call: BZPOPMIN, GET, mark_processing, SET, SADD
BrokerDequeue(q) ==
    \E id \in ZMin(pending[q]) :
        LET ok == id \in DOMAIN rec /\ CanMarkProcessing(rec[id])
        IN  /\ pending' = [pending EXCEPT ![q] = ZPop(@, id)]
            /\ hist' = NotePop(hist, q, id)
            /\ rec' = IF ok THEN [rec EXCEPT ![id] = mark_processing(@, now)]
                      ELSE rec
            /\ processing' = IF ok THEN [processing EXCEPT ![q] = @ \cup {id}]
                             ELSE processing
            /\ UNCHANGED <<now, nextId, completed, failed, dlq, paused, wrec,
                           active, cfg, wk, loops,
                           client, api>>

\* RedisBroker.update_task(task, queue) as one call: SET, then the set move
\* that matches the status (none for a task whose status is processing)
UpdateTask(t, q) ==
    /\ rec' = [x \in (DOMAIN rec) \cup {t.id} |-> IF x = t.id THEN t ELSE rec[x]]
    /\ processing' = IF t.status = "processing" THEN processing
                     ELSE [processing EXCEPT ![q] = SMoveSrc(@, t.id)]
    /\ completed' = IF t.status = "completed"
                    THEN [completed EXCEPT ![q] = SMoveDst(processing[q], @, t.id)]
                    ELSE completed
    /\ failed' = IF t.status = "failed"
                 THEN [failed EXCEPT ![q] = SMoveDst(processing[q], @, t.id)]
                 ELSE failed
    /\ pending' = IF t.status = "pending"
                  THEN [pending EXCEPT ![q] = ZAdd(@, t.id, Score(t.priority))]
                  ELSE pending
    /\ hist' = IF t.status = "pending" THEN NoteInsert(hist, q, t.id) ELSE hist

\* the client finishes a task it dequeued from q: mark_completed and
\* update_task, or mark_failed and retry_task, which re-enqueues when the
\* task can retry and does nothing otherwise
BrokerFinish(q, id, o) ==
    /\ id \in processing[q]
    /\ id \in DOMAIN rec
    /\ rec[id].status = "processing"
    /\ IF o = "ok"
       THEN UpdateTask(mark_completed(rec[id], "r", now), q)
       ELSE IF can_retry(rec[id])
            THEN UpdateTask(prepare_retry(mark_failed(rec[id], ErrorOf(o), now)), q)
            ELSE UpdateTask(mark_failed(rec[id], ErrorOf(o), now), q)
    /\ UNCHANGED <<now, nextId, dlq, paused, wrec, active, cfg, wk, loops, client, api>>

ProduceBroker ==
    \E q \in Queues, p0 \in Priorities, ov \in {NULL} \cup Priorities,
       m \in RetryBudgets :
        Enqueue(q, "echo", p0, ov, m)

NextBroker ==
    \/ ProduceBroker
    \/ \E q \in Queues : BrokerDequeue(q)
    \/ \E q \in Queues, id \in TaskIds, o \in {"ok", "exc"} : BrokerFinish(q, id, o)

SpecBroker == InitBroker /\ [][NextBroker]_vars

\* SpecRace: two running workers polling the same queue; every task may
\* be retried, so an id is re-inserted into the pending set while the
\* other worker polls it
InitRace ==
    /\ InitWith([w \in Workers |-> OneQueue], Workers)
    /\ hist = Hist0

ProduceRace == Enqueue(DefaultQueue, "echo", MaxPriority, NULL, MaxRetryBudget)

NextRace ==
    \/ ProduceRace
    \/ Dequeue
    \/ Handle({"ok", "exc"})
    \/ Reconcile

SpecRace == InitRace /\ [][NextRace]_vars

\* SpecRecover: the same two workers, either of which may die; handlers
\* return a result; time passes and the operator runs
\* recover_orphaned_tasks on the default queue
InitRecover == InitRace

ProduceRecover == Enqueue(DefaultQueue, "echo", MaxPriority, NULL, 0)

NextRecover ==
    \/ ProduceRecover
    \/ Dequeue
    \/ Handle({"ok"})
    \/ Finish
    \/ \E w \in Workers : Heartbeat(w)
    \/ \E w \in Workers : Crash(w)
    \/ \E t \in Timeouts : Recover(DefaultQueue, t)
    \/ Tick

SpecRecover == InitRecover /\ [][NextRecover]_vars

\* SpecPause: one running worker and an operator pausing and resuming
InitPause ==
    /\ InitWith([w \in Workers |-> OneQueue], {"w1"})
    /\ hist = Hist0

NextPause ==
    \/ ProduceRace
    \/ \E q \in {DefaultQueue} : Pause(q) \/ Resume(q)
    \/ Dequeue
    \/ Handle({"ok", "exc"})
    \/ Reconcile

SpecPause == InitPause /\ [][NextPause]_vars

\* SpecShutdown: one worker with two process loops, from construction
\* through start() to the return of start() after graceful_shutdown; the
\* tasks have max_retries 0, so a failed attempt goes to _move_to_dlq and
\* the re-enqueue branch of update_task is never taken
InitShutdown ==
    /\ InitWith([w \in Workers |-> TwoLoops], {})
    /\ hist = Hist0

LoopStep(w, i) ==
    \/ LoopTop(w, i)
    \/ DeqPop(w, i)
    \/ DeqTimeout(w, i)
    \/ DeqGet(w, i)
    \/ DeqSet(w, i)
    \/ DeqSadd(w, i)
    \/ PublishBusy(w, i)
    \/ \E o \in {"ok", "exc"} : RunHandler(w, i, o)
    \/ UpdMove(w, i)
    \/ DlqSet(w, i)
    \/ DlqSadd(w, i)
    \/ Reset(w, i)

ProduceShutdown == Enqueue(DefaultQueue, "echo", MaxPriority, NULL, 0)

NextShutdown ==
    \/ ProduceShutdown
    \/ Start("w1")
    \/ GracefulShutdown("w1")
    \/ StartFinish("w1")
    \/ Heartbeat("w1")
    \/ HeartbeatExit("w1")
    \/ \E i \in LoopIdx : LoopStep("w1", i)

\* the event loop runs every ready coroutine and every store command
\* returns; a handler ends by itself or by the task_timeout of wait_for
FairShutdown ==
    /\ \A i \in LoopIdx : WF_vars(LoopStep("w1", i))
    /\ WF_vars(StartFinish("w1"))
    /\ WF_vars(HeartbeatExit("w1"))

SpecShutdown == InitShutdown /\ [][NextShutdown]_vars /\ FairShutdown

\* SpecFail: one running worker with one process loop on the default
\* queue; tasks of every name and retry budget, handlers that return, raise
\* or time out, and a graceful shutdown at any moment
InitFail == InitPause

ProduceFail ==
    \E name \in TaskNames, m \in RetryBudgets :
        Enqueue(DefaultQueue, name, MaxPriority, NULL, m)

NextFail ==
    \/ ProduceFail
    \/ Dequeue
    \/ Handle(Outcomes)
    \/ Reconcile
    \/ GracefulShutdown("w1")
    \/ StartFinish("w1")

SpecFail == InitFail /\ [][NextFail]_vars

\* ------------------------------------------------------------------ client
\* SpecClient: one caller of the Task and broker API, as the broker and
\* task-model tests are: it creates a Task or receives one from dequeue,
\* calls the Task methods on the object it holds and hands the object to
\* enqueue, update_task and retry_task, in any order
InitClient ==
    /\ InitWith([w \in Workers |-> OneQueue], {})
    /\ hist = Hist0

\* the caller is left with the object its call gave it, or with an exception
Called(out) == client' = out

Holding == client.task # NoTask

StoreWrite(t) == [x \in (DOMAIN rec) \cup {t.id} |-> IF x = t.id THEN t ELSE rec[x]]

\* Task.create(name, payload, priority, max_retries): __post_init__ raises
\* on a priority outside 1..10 and no object is made
TaskCreate(name, p, m) ==
    /\ nextId <= NumTasks
    /\ IF ValidPriority(p)
       THEN /\ Called(Returned(Create(nextId, name, p, m)))
            /\ nextId' = nextId + 1
       ELSE /\ Called(Raised(client.task))
            /\ UNCHANGED nextId
    /\ UNCHANGED <<now, store, paused, wrec, active, cfg, wk, loops, hist, api>>

TaskMarkProcessing ==
    /\ Holding
    /\ Called(Task_mark_processing(client.task, now))
    /\ UNCHANGED <<now, nextId, store, paused, wrec, active, cfg, wk, loops, hist, api>>

\* result is the handler's return value, which may be None
TaskMarkCompleted(result) ==
    /\ Holding
    /\ Called(Task_mark_completed(client.task, result, now))
    /\ UNCHANGED <<now, nextId, store, paused, wrec, active, cfg, wk, loops, hist, api>>

TaskMarkFailed ==
    /\ Holding
    /\ Called(Task_mark_failed(client.task, "boom", now))
    /\ UNCHANGED <<now, nextId, store, paused, wrec, active, cfg, wk, loops, hist, api>>

TaskPrepareRetry ==
    /\ Holding
    /\ Called(Task_prepare_retry(client.task))
    /\ UNCHANGED <<now, nextId, store, paused, wrec, active, cfg, wk, loops, hist, api>>

\* priority enqueue works with: the override if given, else task.priority
EffectivePriority(t, ov) == IF ov # NULL THEN ov ELSE t.priority

\* the Task object enqueue leaves behind: the priority is validated first
\* and assigned only when an override is given
EnqueueObjectMutant(t, ov) == [t EXCEPT !.priority = EffectivePriority(t, ov)]
EnqueueObject(t, ov) ==
    IF ValidPriority(EffectivePriority(t, ov))
    THEN [t EXCEPT !.priority = EffectivePriority(t, ov)]
    ELSE t

\* the object the caller hands to enqueue: a Task it has created and not
\* yet enqueued, as submit_task and the tests do
Fresh(t) == t # NoTask /\ t.status = "pending" /\ t.id \notin DOMAIN rec

\* RedisBroker.enqueue(task, queue, priority) on the object the caller
\* holds: raises on an invalid effective priority, else SET and ZADD
ClientEnqueue(q, ov) ==
    LET t == EnqueueObject(client.task, ov)
    IN  /\ Fresh(client.task)
        /\ IF ValidPriority(EffectivePriority(client.task, ov))
           THEN /\ Called(Returned(t))
                /\ rec' = StoreWrite(t)
                /\ pending' = [pending EXCEPT ![q] = ZAdd(@, t.id, Score(t.priority))]
                /\ hist' = [NoteInsert(hist, q, t.id) EXCEPT
                              !.prio[t.id] = t.priority, !.origin[t.id] = q]
           ELSE /\ Called(Raised(t))
                /\ UNCHANGED <<rec, pending, hist, api>>
        /\ UNCHANGED <<now, nextId, processing, completed, failed, dlq, paused,
                       wrec, active, cfg, wk, loops,
                   api>>

\* RedisBroker.dequeue(queue, timeout) as one call: the task popped is
\* returned with status processing; a popped id without record gives None;
\* mark_processing raises on a record that is not pending
ClientDequeue(q) ==
    \E id \in ZMin(pending[q]) :
        LET out == IF id \in DOMAIN rec
                   THEN Task_mark_processing(rec[id], now)
                   ELSE Returned(NoTask)
            ok  == id \in DOMAIN rec /\ ~out.raised
        IN  /\ pending' = [pending EXCEPT ![q] = ZPop(@, id)]
            /\ hist' = NotePop(hist, q, id)
            /\ rec' = IF ok THEN StoreWrite(out.task) ELSE rec
            /\ processing' = IF ok THEN [processing EXCEPT ![q] = @ \cup {id}]
                             ELSE processing
            /\ Called(IF ok THEN out ELSE [out EXCEPT !.task = NoTask])
            /\ UNCHANGED <<now, nextId, completed, failed, dlq, paused, wrec,
                           active, cfg, wk, loops,
                   api>>

\* RedisBroker.dequeue on a queue whose pending set stays empty: None
ClientDequeueNone(q) ==
    /\ DOMAIN pending[q] = {}
    /\ Called(Returned(NoTask))
    /\ UNCHANGED <<now, nextId, store, paused, wrec, active, cfg, wk, loops, hist, api>>

\* RedisBroker.update_task(task, queue) with the object the caller holds
ClientUpdateTask(q) ==
    /\ Holding
    /\ UpdateTask(client.task, q)
    /\ Called(Returned(client.task))
    /\ UNCHANGED <<now, nextId, dlq, paused, wrec, active, cfg, wk, loops, api>>

\* RedisBroker.retry_task(task, queue): None when the task cannot retry,
\* else prepare_retry and update_task
ClientRetryTask(q) ==
    /\ Holding
    /\ IF can_retry(client.task)
       THEN /\ UpdateTask(prepare_retry(client.task), q)
            /\ Called(Returned(prepare_retry(client.task)))
       ELSE /\ Called(Returned(client.task))
            /\ UNCHANGED <<store, hist, api>>
    /\ UNCHANGED <<now, nextId, dlq, paused, wrec, active, cfg, wk, loops, api>>

Overrides == {NULL} \cup {MaxPriority} \cup InvalidPriorities

\* the calls on a Task object, with priorities, retry budgets and handler
\* results drawn from the given sets
TaskCalls(priorities, budgets, results) ==
    \/ \E p \in priorities, m \in budgets : TaskCreate("echo", p, m)
    \/ TaskMarkProcessing
    \/ \E r \in results : TaskMarkCompleted(r)
    \/ TaskMarkFailed
    \/ TaskPrepareRetry

BrokerCalls ==
    \/ \E ov \in Overrides : ClientEnqueue(DefaultQueue, ov)
    \/ ClientDequeue(DefaultQueue)
    \/ ClientDequeueNone(DefaultQueue)
    \/ ClientUpdateTask(DefaultQueue)
    \/ ClientRetryTask(DefaultQueue)

NextClient == TaskCalls({MinPriority}, {0}, {"r"}) \/ BrokerCalls

SpecClient == InitClient /\ [][NextClient]_vars

\* SpecEnqueue: a producer that creates tasks and enqueues them into either
\* queue with any override, valid or not, and a consumer that dequeues
InitEnqueue == InitClient

NextEnqueue ==
    \/ \E p \in Priorities, m \in RetryBudgets : TaskCreate("echo", p, m)
    \/ \E q \in Queues, ov \in Overrides : ClientEnqueue(q, ov)
    \/ \E q \in Queues : ClientDequeue(q)
    \/ \E q \in Queues : ClientDequeueNone(q)

SpecEnqueue == InitEnqueue /\ [][NextEnqueue]_vars

\* SpecBounds: the calls that set a Task's priority or retries: create with
\* any priority, enqueue with any override, the Task methods, retry_task
\* and dequeue
InitBounds == InitClient

NextBounds ==
    \/ TaskCalls({MinPriority} \cup InvalidPriorities, {MaxRetryBudget}, {"r"})
    \/ \E ov \in Overrides : ClientEnqueue(DefaultQueue, ov)
    \/ ClientDequeue(DefaultQueue)
    \/ ClientRetryTask(DefaultQueue)

SpecBounds == InitBounds /\ [][NextBounds]_vars

\* SpecTask: the Task methods alone, on objects of every priority (valid
\* or not), retry budget and handler result
InitTask == InitClient

NextTask == TaskCalls(Priorities \cup InvalidPriorities, RetryBudgets, {"r", "none"})

SpecTask == InitTask /\ [][NextTask]_vars

\* ------------------------------------------------------------ tasks router
\* ZREM key member: the sorted set afterwards, and whether a member was
\* removed (the command's reply, which cancel_task tests)
ZRem(z, id) == [m \in (DOMAIN z) \ {id} |-> z[m]]

Removed(z, id) == id \in DOMAIN z

\* an answered request: the router is free again; the id the request
\* named and its response are kept
Answer(id, out) == [Api0 EXCEPT !.id = id, !.out = out]

\* cancel_task(task_id, queue): get_task, 404 for an unknown id, 400 for a
\* task whose status is not pending
CancelGet(id, q) ==
    LET t == get_task(rec, id)
    IN  /\ api.pc = "idle"
        /\ api' = IF t = NoTask THEN Answer(id, "404")
                  ELSE IF t.status # "pending" THEN Answer(id, "400")
                  ELSE [pc |-> "cancel_zrem", id |-> id, q |-> q, task |-> t,
                        out |-> "none"]
        /\ UNCHANGED <<now, nextId, store, paused, wrec, active, cfg, wk, loops,
                       hist, client>>

\* cancel_task: ZREM queue:{queue}:pending; cancelled=False when the id was
\* not a member
CancelZrem ==
    LET removed == Removed(pending[api.q], api.id)
    IN  /\ api.pc = "cancel_zrem"
        /\ pending' = [pending EXCEPT ![api.q] = ZRem(@, api.id)]
        /\ hist' = IF api.id \in DOMAIN pending[api.q]
                   THEN [hist EXCEPT !.credit[api.q][api.id] = @ - 1]
                   ELSE hist
        /\ api' = IF removed THEN [api EXCEPT !.pc = "cancel_del"]
                  ELSE Answer(api.id, "not_cancelled")
        /\ UNCHANGED <<now, nextId, rec, processing, completed, failed, dlq,
                       paused, wrec, active, cfg, wk, loops, client>>

\* cancel_task: DELETE task:{id}, cancelled=True
CancelDelete ==
    /\ api.pc = "cancel_del"
    /\ rec' = [x \in (DOMAIN rec) \ {api.id} |-> rec[x]]
    /\ api' = Answer(api.id, "cancelled")
    /\ UNCHANGED <<now, nextId, pending, processing, completed, failed, dlq,
                   paused, wrec, active, cfg, wk, loops, hist, client>>

\* retry_task(task_id, queue): get_task, 404 for an unknown id, 400 for a
\* task that is not failed or cannot retry
RetryGet(id, q) ==
    LET t == get_task(rec, id)
    IN  /\ api.pc = "idle"
        /\ api' = IF t = NoTask THEN Answer(id, "404")
                  ELSE IF t.status # "failed" THEN Answer(id, "400")
                  ELSE IF ~can_retry(t) THEN Answer(id, "400")
                  ELSE [pc |-> "retry_srem", id |-> id, q |-> q, task |-> t,
                        out |-> "none"]
        /\ UNCHANGED <<now, nextId, store, paused, wrec, active, cfg, wk, loops,
                       hist, client>>

\* retry_task: SREM queue:{queue}:failed
RetrySrem ==
    /\ api.pc = "retry_srem"
    /\ failed' = [failed EXCEPT ![api.q] = @ \ {api.id}]
    /\ api' = [api EXCEPT !.pc = "retry_update"]
    /\ UNCHANGED <<now, nextId, rec, pending, processing, completed, dlq,
                   paused, wrec, active, cfg, wk, loops, hist, client>>

\* retry_task: task.prepare_retry(), broker.update_task(task, queue)
RetryUpdate ==
    /\ api.pc = "retry_update"
    /\ UpdateTask(prepare_retry(api.task), api.q)
    /\ api' = Answer(api.id, "retried")
    /\ UNCHANGED <<now, nextId, dlq, paused, wrec, active, cfg, wk, loops,
                   client>>

Retry ==
    \/ \E id \in TaskIds, q \in Queues : RetryGet(id, q)
    \/ RetrySrem
    \/ RetryUpdate

\* a client marks the task it dequeued from q failed and stores it with
\* update_task(task, q), without asking for a retry
BrokerFail(q, id) ==
    /\ id \in processing[q]
    /\ id \in DOMAIN rec
    /\ rec[id].status = "processing"
    /\ UpdateTask(mark_failed(rec[id], "boom", now), q)
    /\ UNCHANGED <<now, nextId, dlq, paused, wrec, active, cfg, wk, loops, client, api>>

\* SpecRetry: clients that enqueue into the default queue, dequeue from any
\* queue, and complete or fail what they dequeued, and retry requests for
\* any id and queue arriving at any moment
InitRetry ==
    /\ InitWith([w \in Workers |-> OneQueue], {})
    /\ hist = Hist0

ProduceRetry ==
    \E m \in RetryBudgets : Enqueue(DefaultQueue, "echo", MaxPriority, NULL, m)

NextRetry ==
    \/ ProduceRetry
    \/ \E q \in Queues : BrokerDequeue(q)
    \/ \E q \in Queues, id \in TaskIds : BrokerFinish(q, id, "ok")
    \/ \E q \in Queues, id \in TaskIds : BrokerFail(q, id)
    \/ Retry

SpecRetry == InitRetry /\ [][NextRetry]_vars

\* SpecSteal: the workers, the clock and the recovery of SpecRecover, where
\* only w1 may die, and cancel requests for the default queue arriving at
\* any moment
NextSteal ==
    \/ ProduceRecover
    \/ Dequeue
    \/ Handle({"ok"})
    \/ Finish
    \/ \E w \in Workers : Heartbeat(w)
    \/ Crash("w1")
    \/ \E t \in Timeouts : Recover(DefaultQueue, t)
    \/ Tick
    \/ \E id \in TaskIds : CancelGet(id, DefaultQueue)
    \/ CancelZrem
    \/ CancelDelete

SpecSteal == InitRecover /\ [][NextSteal]_vars

\* RedisBroker.clear_queue(queue, include_completed): the keys it clears,
\* in its order
ClearKeys(include_completed) ==
    IF include_completed THEN <<"pending", "processing", "failed", "completed">>
    ELSE <<"pending", "processing", "failed">>

\* ZRANGE key 0 -1 for the pending set, SMEMBERS key for the others
ClearMembers(key, q) ==
    CASE key = "pending" -> DOMAIN pending[q]
      [] key = "processing" -> processing[q]
      [] key = "failed" -> failed[q]
      [] OTHER -> completed[q]

\* clear_queue is called: the request is at its first key
ClearCall(q, include_completed) ==
    /\ api.pc = "idle"
    /\ api' = [k |-> 1, inc |-> include_completed] @@
              [Api0 EXCEPT !.pc = "clear_recs", !.q = q]
    /\ UNCHANGED <<now, nextId, store, paused, wrec, active, cfg, wk, loops,
                   hist, client>>

\* clear_queue, for the key at hand: the members are read and task:{id} is
\* deleted for each of them
ClearRecs ==
    /\ api.pc = "clear_recs"
    /\ rec' = [id \in (DOMAIN rec) \ ClearMembers(ClearKeys(api.inc)[api.k], api.q)
                 |-> rec[id]]
    /\ api' = [api EXCEPT !.pc = "clear_set"]
    /\ UNCHANGED <<now, nextId, pending, processing, completed, failed, dlq,
                   paused, wrec, active, cfg, wk, loops, hist, client>>

\* clear_queue, for the key at hand: DELETE key; then the next key, or the
\* call returns
ClearSet ==
    LET key == ClearKeys(api.inc)[api.k]
    IN  /\ api.pc = "clear_set"
        /\ pending' = IF key = "pending"
                      THEN [pending EXCEPT ![api.q] = [id \in {} |-> 0]]
                      ELSE pending
        /\ processing' = IF key = "processing"
                         THEN [processing EXCEPT ![api.q] = {}] ELSE processing
        /\ failed' = IF key = "failed"
                     THEN [failed EXCEPT ![api.q] = {}] ELSE failed
        /\ completed' = IF key = "completed"
                        THEN [completed EXCEPT ![api.q] = {}] ELSE completed
        /\ api' = IF api.k < Len(ClearKeys(api.inc))
                  THEN [api EXCEPT !.pc = "clear_recs", !.k = @ + 1]
                  ELSE Api0
        /\ UNCHANGED <<now, nextId, rec, dlq, paused, wrec, active, cfg, wk,
                       loops, hist, client>>

\* clear_dead_letter_queue(queue): DELETE task:{id} for every member of
\* queue:{Q}:dlq:failed, then DELETE the set
ClearDeadLetter(q) ==
    /\ rec' = [id \in (DOMAIN rec) \ dlq[q] |-> rec[id]]
    /\ dlq' = [dlq EXCEPT ![q] = {}]
    /\ UNCHANGED <<now, nextId, pending, processing, completed, failed,
                   paused, wrec, active, cfg, wk, loops, hist, client, api>>

\* SpecClear: one running worker on the default queue, tasks without a
\* retry budget, and an operator who clears the queue, clears its
\* dead-letter set and cancels tasks at any moment
InitClear == InitPause

NextClear ==
    \/ ProduceShutdown
    \/ Dequeue
    \/ Handle({"ok", "exc"})
    \/ Finish
    \/ \E w \in Workers, i \in LoopIdx : DlqSet(w, i) \/ DlqSadd(w, i)
    \/ \E inc \in BOOLEAN : ClearCall(DefaultQueue, inc)
    \/ ClearRecs
    \/ ClearSet
    \/ ClearDeadLetter(DefaultQueue)
    \/ \E id \in TaskIds : CancelGet(id, DefaultQueue)
    \/ CancelZrem
    \/ CancelDelete

SpecClear == InitClear /\ [][NextClear]_vars

\* SpecRetries: two running workers polling the default queue, tasks of
\* every retry budget, and handlers that raise or time out on every
\* attempt; failed attempts are counted per task
InitRetries ==
    /\ InitWith([w \in Workers |-> OneQueue], Workers)
    /\ hist = [Hist0 EXCEPT !.watch = {"fails"}]

ProduceRetries ==
    \E m \in RetryBudgets : Enqueue(DefaultQueue, "echo", MaxPriority, NULL, m)

NextRetries ==
    \/ ProduceRetries
    \/ Dequeue
    \/ Handle({"exc", "timeout"})
    \/ Reconcile

SpecRetries == InitRetries /\ [][NextRetries]_vars

\* SpecHeartbeat: one running worker that processes tasks and may die, a
\* store that may fail under the heartbeat, and a clock that runs freely;
\* the heartbeat loop is scheduled again and again and the store does not
\* fail for ever
InitHeartbeat == InitPause

NextHeartbeat ==
    \/ ProduceRecover
    \/ Dequeue
    \/ Handle({"ok"})
    \/ Finish
    \/ Heartbeat("w1")
    \/ HeartbeatError("w1")
    \/ Crash("w1")
    \/ Pass

FairHeartbeat == WF_vars(Heartbeat("w1"))

SpecHeartbeat == InitHeartbeat /\ [][NextHeartbeat]_vars /\ FairHeartbeat

\* SpecWorkers: two registered workers that send heartbeats and may die,
\* a free clock, and a monitor that cleans stale workers up
InitWorkers == InitRace

NextWorkers ==
    \/ \E w \in Workers : Heartbeat(w)
    \/ \E w \in Workers : HeartbeatError(w)
    \/ \E w \in Workers : Crash(w)
    \/ \E t \in Timeouts : Cleanup(t)
    \/ Pass

SpecWorkers == InitWorkers /\ [][NextWorkers]_vars

\* SpecConcurrency: a worker constructed with concurrency 1 and a worker
\* constructed with concurrency 2 are started and process tasks without
\* retry budget that succeed or fail
InitConcurrency ==
    /\ InitWith([w \in Workers |-> IF w = "w1" THEN OneQueue ELSE TwoLoops], {})
    /\ hist = Hist0

NextConcurrency ==
    \/ ProduceShutdown
    \/ \E w \in Workers : Start(w)
    \/ \E w \in Workers, i \in LoopIdx : LoopStep(w, i)

SpecConcurrency == InitConcurrency /\ [][NextConcurrency]_vars

\* SpecBackoff: one running worker with one process loop and handlers that
\* raise; the tasks it finds in the default queue have failed and been
\* retried n times before and have one retry left, for n below, at and
\* above the cap of the delay and at the limit of float
RetryCounts == {0, 1, 8, 9, FloatMaxExp - 1, FloatMaxExp}

\* the record and the pending entry update_task leaves for a task after
\* its n-th retry (retries = n, status pending, timestamps and error
\* cleared by prepare_retry)
EnqueueRetried(q, n) ==
    LET id == nextId
        t  == [Create(id, "echo", MaxPriority, n + 1) EXCEPT !.retries = n]
    IN  /\ nextId <= NumTasks
        /\ nextId' = nextId + 1
        /\ rec' = [x \in (DOMAIN rec) \cup {id} |-> IF x = id THEN t ELSE rec[x]]
        /\ pending' = [pending EXCEPT ![q] = ZAdd(@, id, Score(t.priority))]
        /\ hist' = [NoteInsert(hist, q, id) EXCEPT !.prio[id] = t.priority,
                                                   !.origin[id] = q]
        /\ UNCHANGED <<now, processing, completed, failed, dlq, paused, wrec,
                       active, cfg, wk, loops, client, api>>

InitBackoff == InitPause

NextBackoff ==
    \/ \E n \in RetryCounts : EnqueueRetried(DefaultQueue, n)
    \/ Dequeue
    \/ Handle({"exc"})
    \/ Reconcile

SpecBackoff == InitBackoff /\ [][NextBackoff]_vars

\* SpecCleanup: one running worker that may die, the clock, and an operator
\* who runs recover_orphaned_tasks and cleanup_stale_workers on the default
\* queue again and again, in any order
InitCleanup == InitPause

NextCleanup ==
    \/ ProduceRecover
    \/ Dequeue
    \/ Handle({"ok"})
    \/ Finish
    \/ Heartbeat("w1")
    \/ Crash("w1")
    \/ Tick
    \/ \E t \in Timeouts : Recover(DefaultQueue, t)
    \/ \E t \in Timeouts : Cleanup(t)

\* time passes, the operator's calls return, and a live worker's coroutines
\* are scheduled
FairCleanup ==
    /\ WF_vars(Tick)
    /\ \A t \in Timeouts : WF_vars(Recover(DefaultQueue, t))
    /\ \A t \in Timeouts : WF_vars(Cleanup(t))
    /\ WF_vars(Heartbeat("w1"))
    /\ WF_vars(Dequeue \/ Handle({"ok"}) \/ Finish)

SpecCleanup == InitCleanup /\ [][NextCleanup]_vars /\ FairCleanup

\* RedisBroker.get_queue_stats(queue): ZCARD of the pending set, SCARD of
\* the processing, completed and failed sets; QueueStats.total is their sum
get_queue_stats(q) ==
    LET s == [pending    |-> Cardinality(DOMAIN pending[q]),
              processing |-> Cardinality(processing[q]),
              completed  |-> Cardinality(completed[q]),
              failed     |-> Cardinality(failed[q])]
    IN  [queue_name |-> q, pending |-> s.pending, processing |-> s.processing,
         completed |-> s.completed, failed |-> s.failed,
         total |-> s.pending + s.processing + s.completed + s.failed]

\* ------------------------------------------------------------------ claims
\* no coroutine is between two store writes of one broker or worker
\* operation (dequeue, update_task, _move_to_dlq)
Quiescent ==
    \A w \in Workers, i \in LoopIdx :
        loops[w][i].pc \in {"off", "top", "poll", "busy", "run", "reset", "done"}

\* the sets of queue q that hold id
SetsHolding(q, id) ==
    {s \in {"pending", "processing", "completed", "failed", "dlq"} :
        \/ s = "pending" /\ id \in DOMAIN pending[q]
        \/ s = "processing" /\ id \in processing[q]
        \/ s = "completed" /\ id \in completed[q]
        \/ s = "failed" /\ id \in failed[q]
        \/ s = "dlq" /\ id \in dlq[q]}

\* C4: in every quiescent state each stored task id is in exactly one of
\* the sets pending, processing, completed, failed, dlq of the queue it was
\* enqueued into
C4_ExclusiveMembership ==
    Quiescent =>
        \A id \in DOMAIN rec : Cardinality(SetsHolding(hist.origin[id], id)) = 1

\* C6: when the failure path of a task that cannot retry has completed
\* (_move_to_dlq returned), the record is failed with an error, the id is in
\* the failed set of the queue it was dequeued from and not in its
\* processing set, and the id is in the dlq set of the worker's first queue
C6_DeadLetterOnExhaustion ==
    [][\A w \in Workers, i \in LoopIdx :
          DlqSadd(w, i) =>
            LET id == loops[w][i].task.id
                q  == QueueOf(w, loops[w][i].qi)
            IN  /\ rec'[id].status = "failed"
                /\ rec'[id].error # "none"
                /\ rec'[id].retries = rec'[id].max_retries
                /\ id \in failed'[q]
                /\ id \notin processing'[q]
                /\ id \in dlq'[DlqQueue(w)]]_vars

\* C7: after a failed attempt that can retry, the task is back in the
\* pending set of its queue with score -priority and status pending; after
\* the attempt that succeeds the record is completed with retries equal to
\* the number of failed attempts, no error, the handler's result, and the id
\* is in the completed set of its queue and in no other set of it
C7_RetryThenSucceed ==
    [][\A w \in Workers, i \in LoopIdx :
          LET id == loops[w][i].task.id
              q  == QueueOf(w, loops[w][i].qi)
          IN  /\ UpdZadd(w, i) =>
                    /\ id \in DOMAIN pending'[q]
                    /\ pending'[q][id] = -rec'[id].priority
                    /\ rec'[id].status = "pending"
              /\ (UpdMove(w, i) /\ loops[w][i].task.status = "completed") =>
                    /\ rec'[id].status = "completed"
                    /\ rec'[id].retries = hist.fails[id]
                    /\ rec'[id].error = "none"
                    /\ rec'[id].result = "r"
                    /\ id \in completed'[q]
                    /\ id \notin DOMAIN pending'[q]
                    /\ id \notin processing'[q] \cup failed'[q] \cup dlq'[q]]_vars

\* C1: of two tasks enqueued into a queue before any dequeue on it, the one
\* of higher priority is dequeued first, whatever the enqueue order
C1_PriorityOrder ==
    \A q \in Queues :
        \A a, b \in 1..Len(hist.order[q]) :
            LET A == hist.order[q][a]
                B == hist.order[q][b]
            IN  (/\ A \in hist.early[q]
                 /\ B \in hist.early[q]
                 /\ hist.prio[A] > hist.prio[B]) => a < b

\* both tasks were enqueued before the first dequeue, the one enqueued
\* later has the higher priority, and both have been dequeued
C1_Witness ==
    \E q \in Queues : \E A, B \in hist.early[q] :
        /\ B < A
        /\ hist.prio[A] > hist.prio[B]
        /\ \E a, b \in 1..Len(hist.order[q]) :
              hist.order[q][a] = A /\ hist.order[q][b] = B

\* a task a poller or recover_orphaned_tasks can still reach: pending,
\* terminal, in the hands of a live worker, or in processing and named by a
\* published worker state
Reachable(id) ==
    \/ \E q \in Queues : id \in DOMAIN pending[q]
    \/ /\ rec[id].status \in {"completed", "failed"}
       /\ \E q \in Queues : id \in completed[q] \cup failed[q]
    \/ \E w \in Workers, i \in LoopIdx :
          /\ ~wk[w].crashed
          /\ loops[w][i].pc \notin {"off", "top", "poll", "done"}
          /\ loops[w][i].tid = id
    \/ /\ \E q \in Queues : id \in processing[q]
       /\ \E w \in DOMAIN wrec : w \in active /\ wrec[w].current_task = id

\* C2: every accepted task is executed and reaches a terminal record even
\* when a worker dies at any step between the pop of dequeue and its final
\* update_task; no accepted task is left in no set, or in processing out
\* of the reach of recovery
C2_AtLeastOnce == \A id \in DOMAIN rec : Reachable(id)

\* C3: a pending entry is handed to at most one dequeue call: an id is
\* popped from a queue no more often than it was inserted into it
C3_NoDoubleDequeue ==
    \A q \in Queues, id \in TaskIds : hist.credit[q][id] >= 0

\* two workers are inside dequeue on the same queue at the same time, each
\* with the id it popped
C3_Witness ==
    /\ loops["w1"][1].pc = "deq_get"
    /\ loops["w2"][1].pc = "deq_get"
    /\ QueueOf("w1", loops["w1"][1].qi) = QueueOf("w2", loops["w2"][1].qi)
    /\ loops["w1"][1].tid # loops["w2"][1].tid

\* C5: recover_orphaned_tasks(Q) returns every task named by a stale
\* worker, held in Q:processing with status processing, to Q:pending with
\* score -priority, status pending and no started_at; the task a worker
\* that is not stale has published stays as it is
C5_RecoveryPostcondition ==
    [][\A q \in Queues, t \in Timeouts : Recover(q, t) =>
          /\ \A w \in StaleWorkers(t) :
                LET id == wrec[w].current_task
                IN  (/\ id \in DOMAIN rec
                     /\ id \in processing[q]
                     /\ rec[id].status = "processing") =>
                        /\ id \in DOMAIN pending'[q]
                        /\ pending'[q][id] = -rec'[id].priority
                        /\ id \notin processing'[q]
                        /\ rec'[id].status = "pending"
                        /\ rec'[id].started_at = NULL
          /\ \A w \in (active \cap DOMAIN wrec) \ StaleWorkers(t) :
                LET id == wrec[w].current_task
                IN  id \in DOMAIN rec =>
                        /\ rec'[id] = rec[id]
                        /\ (id \in processing'[q]) = (id \in processing[q])
                        /\ (id \in DOMAIN pending'[q]) = (id \in DOMAIN pending[q])]_vars

\* C8: no polling pass pops a task from a queue that is in queues:paused
C8_PauseHonoured ==
    [][\A w \in Workers, i \in LoopIdx :
          DeqPop(w, i) => QueueOf(w, loops[w][i].qi) \notin paused]_vars

\* C9: once graceful_shutdown has set _running to false no process loop of
\* the worker pops another task from a pending set
C9_NoNewWorkDuringShutdown ==
    [][\A w \in Workers, i \in LoopIdx : DeqPop(w, i) => wk[w].running]_vars

\* what holds once start() has returned: every loop has exited holding no
\* task, the heartbeat task has ended, no task the worker had in flight is
\* left with a processing record, and the stored WorkerState is stopped
\* with no current task
ShutdownDone(w) ==
    /\ \A i \in LoopIdx : /\ loops[w][i].pc \in {"off", "done"}
                          /\ loops[w][i].task = NoTask
    /\ wk[w].hb = "done"
    /\ \A id \in hist.inflight[w] : id \in DOMAIN rec /\ rec[id].status # "processing"
    /\ w \in DOMAIN wrec
    /\ wrec[w].status = "stopped"
    /\ wrec[w].current_task = 0
    /\ wrec[w].current_task_name = "none"

FailurePcs == {"upd_move", "upd_zadd", "dlq_set", "dlq_sadd", "reset"}

C12_UpdateReconciles ==
    [][\A q \in Queues :
          (ClientUpdateTask(q) /\ hist.origin[client.task.id] = q) =>
            LET T == client.task
            IN  /\ rec'[T.id] = T
                /\ T.status = "completed" =>
                      T.id \in completed'[q] /\ T.id \notin processing'[q]
                /\ T.status = "failed" =>
                      T.id \in failed'[q] /\ T.id \notin processing'[q]
                /\ T.status = "pending" =>
                      /\ T.id \in DOMAIN pending'[q]
                      /\ pending'[q][T.id] = -T.priority
                      /\ T.id \notin processing'[q]]_vars

\* C13: when dequeue(Q) returns a task T, T.id has left Q:pending and is in
\* Q:processing, and the returned T and the stored record have status
\* processing and started_at set; when Q:pending is empty dequeue returns
\* none and changes no key of the store
C13_DequeuePostcondition ==
    [][\A q \in Queues :
          LET dequeue == ClientDequeue(q) \/ ClientDequeueNone(q)
              T == client'.task
          IN  /\ (dequeue /\ T # NoTask) =>
                    /\ T.id \in DOMAIN pending[q]
                    /\ T.id \notin DOMAIN pending'[q]
                    /\ T.id \in processing'[q]
                    /\ T.status = "processing"
                    /\ T.started_at # NULL
                    /\ rec'[T.id].status = "processing"
                    /\ rec'[T.id].started_at # NULL
                    /\ rec'[T.id] = T
              /\ (dequeue /\ DOMAIN pending[q] = {}) =>
                    /\ T = NoTask
                    /\ ~client'.raised
                    /\ store' = store
                    /\ paused' = paused]_vars

\* dequeue has returned a task while another task is still pending
C13_Witness ==
    /\ client.task # NoTask
    /\ client.task.status = "processing"
    /\ client.task.id \in processing[DefaultQueue]
    /\ rec[client.task.id] = client.task
    /\ DOMAIN pending[DefaultQueue] # {}

C15_EnqueueRejectsInvalid ==
    [][\A q \in Queues, ov \in Overrides :
          (/\ ClientEnqueue(q, ov)
           /\ EffectivePriority(client.task, ov) \notin MinPriority..MaxPriority) =>
              /\ client'.raised
              /\ client'.task.priority = client.task.priority
              /\ client'.task = client.task
              /\ client.task.id \notin DOMAIN rec'
              /\ rec' = rec
              /\ pending' = pending
              /\ store' = store]_vars

\* enqueue has raised on a task that is still not stored, while an earlier
\* task is pending
C15_Witness ==
    /\ client.raised
    /\ Fresh(client.task)
    /\ \E q \in Queues : DOMAIN pending[q] # {}

\* every Task there is: the stored records, the object the caller holds
\* and the objects the process loops hold
TasksHeld ==
    ({rec[id] : id \in DOMAIN rec}
        \cup {client.task}
        \cup {loops[w][i].task : w \in Workers, i \in LoopIdx}) \ {NoTask}

\* C16: every task, stored or held, has its priority in 1..10 and
\* retries <= max_retries + 1, whatever sequence of create, enqueue (with
\* or without override), dequeue, mark_*, prepare_retry and retry_task
\* produced it
C16_TaskBounds ==
    \A t \in TasksHeld :
        /\ t.priority >= 1
        /\ t.priority <= 10
        /\ t.retries <= t.max_retries + 1

\* a task created with the lowest priority is stored with the highest,
\* given by an override, and has used up its retry budget
C16_Witness ==
    \E id \in DOMAIN rec :
        /\ rec[id].priority = MaxPriority
        /\ rec[id].max_retries > 0
        /\ rec[id].retries = rec[id].max_retries

\* C17: in every task state the result is set exactly when the status is
\* completed and the error is set exactly when the status is failed, so
\* neither is set while pending or processing, also after a retry and when
\* the handler returned no result
C17_ResultErrorInvariant ==
    \A t \in TasksHeld :
        /\ (t.result # "none") = (t.status = "completed")
        /\ (t.error # "none") = (t.status = "failed")

\* C18: mark_processing succeeds only from status pending, mark_completed
\* and mark_failed only from status processing; from any other status the
\* call raises and leaves every field of the task unchanged
C18_GuardedTransitions ==
    [][LET t  == client.task
           t2 == client'.task
       IN  /\ TaskMarkProcessing =>
                IF t.status = "pending"
                THEN ~client'.raised /\ t2.status = "processing"
                ELSE client'.raised /\ t2 = t
           /\ (\E r \in {"r", "none"} : TaskMarkCompleted(r)) =>
                IF t.status = "processing"
                THEN ~client'.raised /\ t2.status = "completed"
                ELSE client'.raised /\ t2 = t
           /\ TaskMarkFailed =>
                IF t.status = "processing"
                THEN ~client'.raised /\ t2.status = "failed"
                ELSE client'.raised /\ t2 = t]_vars

\* a mark_* call has raised on a completed task: every Task has been
\* created, so the call was not Task.create, and the task can retry, so it
\* was not prepare_retry
C18_Witness ==
    /\ client.raised
    /\ nextId > NumTasks
    /\ client.task.status = "completed"
    /\ client.task.result = "r"
    /\ client.task.retries < client.task.max_retries

\* the changes of a stored status the lifecycle allows; a failed attempt
\* that is retried is stored in one write, as processing -> pending with
\* one more retry (mark_failed and prepare_retry on the object, then SET)
LifecycleStep(old, new) ==
    \/ new.status = old.status
    \/ old.status = "pending" /\ new.status = "processing"
    \/ old.status = "processing" /\ new.status \in {"completed", "failed"}
    \/ old.status = "failed" /\ new.status = "pending"
                             /\ new.retries = old.retries + 1
    \/ old.status = "processing" /\ new.status = "pending"
                                 /\ new.retries = old.retries + 1

\* C19: the status stored for a task changes only along pending ->
\* processing, processing -> completed, processing -> failed and failed ->
\* pending through prepare_retry; nothing takes a task from processing or
\* completed straight back to pending, and completed is terminal
C19_StrictLifecycle ==
    [][\A id \in DOMAIN rec :
          id \in DOMAIN rec' /\ LifecycleStep(rec[id], rec'[id])]_vars

\* C20: prepare_retry on a task with retries = max_retries raises and
\* changes nothing; with retries < max_retries it adds exactly 1 to
\* retries, sets the status pending and clears started_at, completed_at and
\* error; can_retry() is true exactly when retries < max_retries
C20_PrepareRetry ==
    [][LET t  == client.task
           t2 == client'.task
       IN  /\ TaskPrepareRetry =>
                IF t.retries < t.max_retries
                THEN /\ ~client'.raised
                     /\ t2 = [t EXCEPT !.retries = t.retries + 1,
                                        !.status = "pending",
                                        !.started_at = NULL,
                                        !.completed_at = NULL,
                                        !.error = "none"]
                ELSE /\ client'.raised
                     /\ t2 = t
           /\ Holding => (can_retry(t) <=> t.retries < t.max_retries)]_vars

\* prepare_retry has used the last retry of a task and left it pending
C20_Witness ==
    /\ ~client.raised
    /\ Holding
    /\ client.task.status = "pending"
    /\ client.task.error = "none"
    /\ client.task.completed_at = NULL
    /\ client.task.max_retries > 0
    /\ client.task.retries = client.task.max_retries

\* the edges of the worker status machine
StatusEdges ==
    {<<"starting", "idle">>, <<"idle", "busy">>, <<"busy", "idle">>,
     <<"idle", "stopping">>, <<"busy", "stopping">>, <<"stopping", "stopped">>}

\* C21: the status a worker publishes to worker:{wid} changes only along
\* starting -> idle, idle -> busy, busy -> idle, idle -> stopping, busy ->
\* stopping and stopping -> stopped; once stopping has been published the
\* status never goes back to idle or busy
C21_StatusMachine ==
    [][\A w \in Workers :
          (w \in DOMAIN wrec /\ w \in DOMAIN wrec') =>
              \/ wrec'[w].status = wrec[w].status
              \/ <<wrec[w].status, wrec'[w].status>> \in StatusEdges]_vars

\* C22: in every WorkerState a worker has written to the store,
\* current_task and current_task_name are populated exactly when the status
\* is busy
C22_CurrentTaskIffBusy ==
    \A w \in DOMAIN wrec :
        /\ (wrec[w].current_task # 0) = (wrec[w].status = "busy")
        /\ (wrec[w].current_task_name # "none") = (wrec[w].status = "busy")

\* C23: after recover_orphaned_tasks(Q, timeout) has run on a stale worker
\* W that had dequeued a task from Q, the task is back in Q:pending and W
\* is no longer a member of workers:active
C23_RecoveryDeregisters ==
    [][\A q \in Queues, t \in Timeouts : Recover(q, t) =>
          \A w \in StaleWorkers(t) :
              (/\ wrec[w].current_task \in Orphans(t)
               /\ wrec[w].current_task \in processing[q]) =>
                  /\ wrec[w].current_task \in DOMAIN pending'[q]
                  /\ w \notin active']_vars

\* C24: a dequeued task whose name has no registered handler is marked
\* failed with the error naming the missing handler and takes the failure
\* path of a handler exception: tasks_failed is incremented and the task is
\* re-enqueued with retries + 1 when it can retry, else it ends in failed
\* and in the dead-letter set; when _process_task returns the worker state
\* is idle with no current task; the sets are those of the queue the task
\* was dequeued from
C24_MissingHandler ==
    [][\A w \in Workers, i \in LoopIdx, o \in Outcomes :
          LET l  == loops[w][i]
              id == l.task.id
              q  == QueueOf(w, l.qi)
          IN  /\ (RunHandler(w, i, o) /\ l.task.name \notin Handlers) =>
                    /\ wk'[w].state.tasks_failed = wk[w].state.tasks_failed + 1
                    /\ IF l.task.retries < l.task.max_retries
                       THEN /\ rec'[id].status = "pending"
                            /\ rec'[id].retries = l.task.retries + 1
                       ELSE /\ rec'[id].status = "failed"
                            /\ rec'[id].error = "no handler"
                            /\ rec'[id].retries = l.task.retries
              /\ (Reset(w, i) /\ l.task.name \notin Handlers) =>
                    /\ wrec'[w].status = "idle"
                    /\ wrec'[w].current_task = 0
                    /\ wrec'[w].current_task_name = "none"
                    /\ id \notin processing[q]
                    /\ IF l.task.status = "pending"
                       THEN /\ id \in DOMAIN pending[q]
                            /\ pending[q][id] = -l.task.priority
                            /\ id \notin failed[q] \cup dlq[q]
                       ELSE /\ l.task.status = "failed"
                            /\ id \in failed[q]
                            /\ id \in dlq[DlqQueue(w)]
                            /\ id \notin DOMAIN pending[q]]_vars

\* the process loops of live workers that hold task id: they popped it and
\* have not yet finished update_task or _move_to_dlq for it
HeldBy(id) ==
    {<<w, i>> \in Workers \X LoopIdx :
        /\ ~wk[w].crashed
        /\ loops[w][i].tid = id
        /\ loops[w][i].pc \in {"deq_get", "deq_set", "deq_sadd", "busy", "run",
                               "upd_move", "upd_zadd", "dlq_set", "dlq_sadd"}}

\* C25: cancel_task removes the id from Q:pending and deletes its record
\* exactly when the record it read is pending and the id is still a member
\* of Q:pending; an unknown or non-pending task is rejected (404, 400) and
\* an id that is no longer in Q:pending is answered cancelled=False, both
\* without any change of the store; of a cancel and a dequeue of the same
\* insertion only one obtains the id, and the record cancel deletes is
\* never that of a task a process loop holds
C25_CancelPending ==
    [][/\ \A id \in TaskIds, q \in Queues :
            (CancelGet(id, q) /\ (id \notin DOMAIN rec \/ rec[id].status # "pending"))
                => /\ api'.out \in {"404", "400"}
                   /\ api'.pc = "idle"
                   /\ store' = store
       /\ \A id \in TaskIds, q \in Queues :
            (CancelGet(id, q) /\ id \in DOMAIN rec /\ rec[id].status = "pending")
                => api'.pc = "cancel_zrem" /\ store' = store
       /\ (CancelZrem /\ api.id \notin DOMAIN pending[api.q])
                => api'.out = "not_cancelled" /\ api'.pc = "idle" /\ store' = store
       /\ (CancelZrem /\ api.id \in DOMAIN pending[api.q])
                => /\ api'.pc = "cancel_del"
                   /\ api.id \notin DOMAIN pending'[api.q]
                   /\ HeldBy(api.id) = {}
       /\ CancelDelete
                => /\ api.id \in DOMAIN rec /\ rec[api.id].status = "pending"
                   /\ api.id \notin DOMAIN rec'
                   /\ api.id \notin DOMAIN pending'[api.q]
                   /\ api'.out = "cancelled"
                   /\ HeldBy(api.id) = {}
       /\ (rec' # rec /\ DOMAIN rec' # DOMAIN rec /\ DOMAIN rec \ DOMAIN rec' # {})
                => CancelDelete
       /\ \A q \in Queues, id \in TaskIds : hist'.credit[q][id] >= 0]_vars

\* C29: in every quiescent state every id in a queue's pending sorted set
\* has a stored record whose status is pending, so that mark_processing in
\* dequeue does not raise on an id it popped
C29_PendingMeansPending ==
    Quiescent =>
        \A q \in Queues : \A id \in DOMAIN pending[q] :
            id \in DOMAIN rec /\ rec[id].status = "pending"

\* C30: recover_orphaned_tasks puts a task back into a pending set only if
\* no worker that is not stale holds it, also when it runs again after
\* another worker has dequeued the task it recovered before
C30_RecoveryNeverSteals ==
    [][\A q \in Queues, t \in Timeouts :
          Recover(q, t) =>
              \A id \in (DOMAIN pending'[q]) \ (DOMAIN pending[q]) :
                  \A h \in HeldBy(id) : h[1] \in StaleWorkers(t)]_vars

C28_ReconcileInOrigin ==
    [][\A w \in Workers, i \in LoopIdx :
          LET l  == loops[w][i]
              id == l.task.id
              q  == QueueOf(w, l.qi)
          IN  /\ UpdMove(w, i) =>
                    /\ id \notin processing'[q]
                    /\ l.task.status = "completed" => id \in completed'[q]
                    /\ l.task.status = "failed" => id \in failed'[q]
              /\ UpdZadd(w, i) =>
                    /\ id \in DOMAIN pending'[q]
                    /\ pending'[q][id] = - l.task.priority]_vars

\* C31: whenever a process loop of a live worker is executing a handler,
\* the WorkerState last written for that worker has status busy and names a
\* task that one of the worker's loops has in flight (its handler runs or
\* its outcome is being reconciled); a loop that finishes does not publish
\* idle while another loop is still processing
C31_PublishedCoversInFlight ==
    \A w \in Workers :
        LET running  == {i \in LoopIdx : loops[w][i].pc = "run"}
            inflight == {i \in LoopIdx : loops[w][i].pc \in
                            {"run", "upd_move", "upd_zadd", "dlq_set", "dlq_sadd",
                             "reset"}}
        IN  (~wk[w].crashed /\ wk[w].running /\ running # {}) =>
                /\ w \in DOMAIN wrec
                /\ wrec[w].status = "busy"
                /\ \E i \in inflight : wrec[w].current_task = loops[w][i].task.id

\* C32: a task that a crashed worker, stale by now, holds in the processing
\* set of the default queue is eventually back in its pending set, whatever
\* the order in which cleanup_stale_workers and recover_orphaned_tasks run
C32_CleanupKeepsOrphans ==
    \A id \in TaskIds :
        (/\ wk["w1"].crashed
         /\ id \in processing[DefaultQueue]
         /\ \E t \in Timeouts : "w1" \in StaleWorkers(t)
         /\ wrec["w1"].current_task = id)
            ~> (id \in DOMAIN pending[DefaultQueue])

C34_ReferentialIntegrity ==
    (Quiescent /\ api.pc = "idle") =>
        /\ \A q \in Queues :
              ((DOMAIN pending[q]) \cup processing[q] \cup completed[q]
                  \cup failed[q] \cup dlq[q]) \subseteq DOMAIN rec
        /\ \A id \in DOMAIN rec : \E q \in Queues : SetsHolding(q, id) # {}

\* C35: get_queue_stats(Q) reports the cardinalities of the four sets of Q
\* and their sum as total, and in every quiescent state total equals the
\* number of distinct tasks that were enqueued into Q
C35_StatsConservation ==
    \A q \in Queues :
        LET st == get_queue_stats(q)
        IN  /\ st.total = st.pending + st.processing + st.completed + st.failed
            /\ Quiescent =>
                  st.total = Cardinality({id \in DOMAIN rec : hist.origin[id] = q})

\* C36: when the id that dequeue popped from Q:pending has no task:{id}
\* record, dequeue returns none: the id is not put back into Q:pending, not
\* added to Q:processing, and no record is written; the pop itself removes
\* that id only and leaves the other members and their scores as they were
C36_MissingRecord ==
    [][\A w \in Workers, i \in LoopIdx :
          LET l == loops[w][i]
              q == QueueOf(w, l.qi)
          IN  /\ (DeqGet(w, i) /\ l.tid \notin DOMAIN rec) =>
                    /\ loops'[w][i].task = NoTask
                    /\ loops'[w][i].tid = 0
                    /\ loops'[w][i].pc \in {"poll", "top"}
                    /\ store' = store
                    /\ l.tid \notin DOMAIN pending'[q]
                    /\ l.tid \notin processing'[q]
                    /\ l.tid \notin DOMAIN rec'
              /\ DeqPop(w, i) =>
                    /\ DOMAIN pending'[q] = (DOMAIN pending[q]) \ {loops'[w][i].tid}
                    /\ \A id \in DOMAIN pending'[q] : pending'[q][id] = pending[q][id]
                    /\ rec' = rec /\ processing' = processing]_vars

\* a process loop popped an id whose record was deleted, got none from
\* dequeue and is back at its loop top; the id is in no set and has no
\* record, and another task is still pending
C36_Witness ==
    \E id \in TaskIds :
        /\ id < nextId
        /\ hist.credit[DefaultQueue][id] = 0
        /\ id \notin DOMAIN rec
        /\ \A q \in Queues : SetsHolding(q, id) = {}
        /\ loops["w1"][1].pc = "top"
        /\ api.pc = "clear_set"
        /\ DOMAIN pending[DefaultQueue] # {}

C38_ActiveStalePartition ==
    \A t \in 0..(MaxTime + 1) :
        /\ get_active_workers(t) \cap StaleWorkers(t) = {}
        /\ get_active_workers(t) \cup StaleWorkers(t) = get_all_workers
        /\ \A w \in get_all_workers :
              /\ w \in get_active_workers(t) <=> now - wrec[w].last_heartbeat < t
              /\ w \in StaleWorkers(t) <=> now - wrec[w].last_heartbeat >= t

\* one registered worker is stale and another active for the same timeout,
\* the stale one exactly at the threshold
C38_Witness ==
    \E t \in Timeouts : \E w \in StaleWorkers(t) :
        /\ now - wrec[w].last_heartbeat = t
        /\ get_active_workers(t) # {}

\* the process loops of w that have dequeued a task and whose _process_task
\* has not returned
Unfinished(w) ==
    {i \in LoopIdx :
        /\ loops[w][i].tid # 0
        /\ loops[w][i].pc \in {"deq_get", "deq_set", "deq_sadd", "busy", "run",
                               "upd_move", "upd_zadd", "dlq_set", "dlq_sadd",
                               "reset"}}

C40_BackoffFormula ==
    /\ [](\A w \in Workers, i \in LoopIdx :
             (At(w, i, "run") /\ can_retry(loops[w][i].task)) =>
                LET n == loops[w][i].task.retries
                    r == calculate_retry_delay(n)
                IN  /\ ~r.raised
                    /\ r.delay = IF n <= 8 THEN 2 ^ n ELSE 300
                    /\ \A k \in {j \in RetryCounts : j <= n} :
                          /\ ~calculate_retry_delay(k).raised
                          /\ calculate_retry_delay(k).delay <= r.delay)
    /\ [][\A w \in Workers, i \in LoopIdx :
             LET l  == loops[w][i]
                 m  == loops'[w][i]
                 id == l.task.id
             IN  /\ (At(w, i, "run") /\ m # l /\ m.task.status # "completed"
                        /\ can_retry(l.task))
                       => /\ m.pc = "upd_move"
                          /\ rec'[id].status = "pending"
                          /\ rec'[id].retries = l.task.retries + 1
                 /\ (At(w, i, "upd_zadd") /\ m # l)
                       => /\ id \in DOMAIN pending'[DefaultQueue]
                          /\ pending'[DefaultQueue][id] = Score(l.task.priority)]_vars

====
